---- MODULE Spec2Model ----
(***************************************************************************)
(* Model of the MCP chat client of src/client.ts: main, connectToServer,   *)
(* chatLoop, processQuery and cleanup.  Every await of the program is a    *)
(* suspension point: the action that reaches it puts the awaited operation *)
(* in `inflight`, and a later action takes one of its outcomes (resolved   *)
(* or rejected) and runs the code up to the next await.                    *)
(***************************************************************************)
EXTENDS Integers, Sequences, FiniteSets, TLC

\* ---------------------------------------------------------------- bounds
MaxTurns == 2      \* queries typed before the user quits
MaxCalls == 2      \* tool calls the model requests in one completion

\* ------------------------------------------------------- value domains
Answers  == {"a1", "a2"}
CallIds  == {"c1", "c2"}
ToolText == {"r1"}
ArgText  == {"{}", "{"}

VARIABLES
  pc,              \* position of the single thread of control
  session,         \* this.session: "null", "open" or "closed"
  messages,        \* this.messages
  query,           \* processQuery's parameter
  available_tools, \* number of schemas built from list_tools (line 61)
  content,         \* chatResponse.choices[0] (line 77)
  tool_messages,   \* the local buffer of line 81
  k,               \* index of the tool call the for loop is at
  inflight,        \* external operations awaited and not yet settled
  turns,           \* queries read so far
  turnStart,       \* Len(messages) when the current turn began
  status,          \* "idle", "running", "returned" or "threw"
  err,             \* which step threw in the current turn
  ret,             \* value processQuery returned in the current turn
  finalIssued,     \* the second completion call was issued this turn
  callLog,         \* ids handed to call_tool this turn, in issue order
  closeCount,      \* calls of session.close()
  historyWritten,  \* fs.writeFileSync of cleanup has completed
  written,         \* what it wrote
  env,             \* the API key and server-config.json the process found
  initialized,     \* session.initialize() has resolved
  connectFailed,   \* an await of connectToServer rejected
  line,            \* the last line readlineSync.question returned
  readLen,         \* Len(messages) when that line was read
  cleanupCount,    \* calls of client.cleanup()
  requests,        \* tools parameter of each completion call of the turn
  opLog,           \* external operations issued this turn, in issue order
  finalFinish,     \* finish_reason of the second completion's choice
  executed         \* indexes of the tool calls that resolved this turn

vars == <<pc, session, messages, query, available_tools, content,
          tool_messages, k, inflight, turns, turnStart, status, err, ret,
          finalIssued, callLog, closeCount, historyWritten, written, env,
          initialized, connectFailed, line, readLen, cleanupCount, requests,
          opLog, finalFinish, executed>>

\* ------------------------------------------------------------ messages
NullMessage == [role |-> "none", content |-> "null", tool_calls |-> <<>>,
                tool_call_id |-> "null"]

UserMessage(q) == [role |-> "user", content |-> q, tool_calls |-> <<>>,
                   tool_call_id |-> "null"]

AssistantText(c) == [role |-> "assistant", content |-> c,
                     tool_calls |-> <<>>, tool_call_id |-> "null"]

AssistantToolCalls(tcs) == [role |-> "assistant", content |-> "null",
                            tool_calls |-> tcs, tool_call_id |-> "null"]

ToolMessage(text, id) == [role |-> "tool", content |-> text,
                          tool_calls |-> <<>>, tool_call_id |-> id]

ToolCall(id, a) == [id |-> id, name |-> "list_dir", arguments |-> a]

\* sequences of 1..MaxCalls tool calls
ToolCallSeqs ==
  UNION { [1..n -> {ToolCall(id, a) : id \in CallIds, a \in ArgText}]
          : n \in 1..MaxCalls }

NoContent == [finish_reason |-> "none", message |-> NullMessage]

\* the choices[0] a completion can carry
Choices ==
  { [finish_reason |-> "stop", message |-> AssistantText(c)] : c \in Answers }
  \cup
  { [finish_reason |-> "tool_calls", message |-> AssistantToolCalls(tcs)]
    : tcs \in ToolCallSeqs }

\* JSON.parse of the argument string: TRUE when it decodes
JSONParses(a) == a = "{}"

Ids(tcs) == [i \in 1..Len(tcs) |-> tcs[i].id]

\* ---------------------------------------------------------- settings.ts
\* what getSettings can find: DEEPSEEK_API_KEY, and server-config.json as
\* absent ("ENOENT"), not JSON ("garbage") or JSON with the given content
Server(hasCommand, hasArgs, argsIsArray, args) ==
  [hasCommand |-> hasCommand, hasArgs |-> hasArgs,
   argsIsArray |-> argsIsArray, args |-> args]

GoodServer == Server(TRUE, TRUE, TRUE, <<"server.js">>)

Env(apiKey, file, hasServers, servers) ==
  [apiKey |-> apiKey, file |-> file, hasServers |-> hasServers,
   servers |-> servers]

GoodEnv == Env("key", "json", TRUE, <<GoodServer>>)

Envs ==
  { GoodEnv,
    Env("", "json", TRUE, <<GoodServer>>),
    Env("key", "ENOENT", FALSE, <<>>),
    Env("key", "garbage", FALSE, <<>>),
    Env("key", "json", FALSE, <<>>),
    Env("key", "json", TRUE, <<>>),
    Env("key", "json", TRUE, <<Server(FALSE, TRUE, TRUE, <<"server.js">>)>>),
    Env("key", "json", TRUE, <<Server(TRUE, FALSE, FALSE, <<>>)>>),
    Env("key", "json", TRUE, <<Server(TRUE, TRUE, FALSE, <<>>)>>),
    Env("key", "json", TRUE, <<Server(TRUE, TRUE, TRUE, <<>>)>>),
    Env("key", "json", TRUE, <<Server(TRUE, TRUE, TRUE, <<>>), GoodServer>>) }

\* the args check of line 70 is left out
GetSettings_anyArgs(e) ==
  IF e.apiKey = "" THEN "ApiKeyRequired"
  ELSE IF e.file = "ENOENT" THEN "ConfigNotFound"
  ELSE IF e.file = "garbage" THEN "InvalidConfig"
  ELSE IF ~e.hasServers \/ Len(e.servers) = 0 THEN "NoServer"
  ELSE IF ~e.servers[1].hasCommand \/ ~e.servers[1].hasArgs
    THEN "MissingFields"
  ELSE "ok"

\* lines 23-90: "ok" when settings are returned, else the error thrown
GetSettings(e) ==
  IF e.apiKey = "" THEN "ApiKeyRequired"
  ELSE IF e.file = "ENOENT" THEN "ConfigNotFound"
  ELSE IF e.file = "garbage" THEN "InvalidConfig"
  ELSE IF ~e.hasServers \/ Len(e.servers) = 0 THEN "NoServer"
  ELSE IF ~e.servers[1].hasCommand \/ ~e.servers[1].hasArgs
    THEN "MissingFields"
  ELSE IF ~e.servers[1].argsIsArray \/ Len(e.servers[1].args) = 0
    THEN "EmptyArgs"
  ELSE "ok"

\* ----------------------------------------------------------- input lines
\* a line is the sequence of its characters
Lines ==
  { <<"q", "u", "i", "t">>,
    <<" ", "Q", "U", "I", "T", " ">>,
    <<"Q", "u", "i", "t", " ">>,
    <<" ", "q", "1", " ">> }

\* before any line was read
NoLine == <<"<none>">>

RECURSIVE TrimStart(_)
TrimStart(cs) ==
  IF cs # <<>> /\ Head(cs) = " " THEN TrimStart(Tail(cs)) ELSE cs

RECURSIVE TrimEnd(_)
TrimEnd(cs) ==
  IF cs # <<>> /\ cs[Len(cs)] = " "
    THEN TrimEnd(SubSeq(cs, 1, Len(cs) - 1))
    ELSE cs

\* line 121: String.prototype.trim
Trim(cs) == TrimEnd(TrimStart(cs))

LowerChar(c) ==
  CASE c = "Q" -> "q" [] c = "U" -> "u" [] c = "I" -> "i" [] c = "T" -> "t"
    [] OTHER -> c

\* the comparison is made on the line as typed
ToLowerCase_asTyped(cs) == cs

\* line 122: String.prototype.toLowerCase
ToLowerCase(cs) == [i \in 1..Len(cs) |-> LowerChar(cs[i])]

\* line 122: query.toLowerCase() === "quit", query being the trimmed line
IsQuitCommand(l) == ToLowerCase(Trim(l)) = <<"q", "u", "i", "t">>

\* the string a character sequence spells, as it is stored in a message
Text(cs) ==
  CASE cs = <<"q", "1">> -> "q1"
    [] cs = <<" ", "q", "1", " ">> -> " q1 "
    [] cs = <<"q", "1", " ">> -> "q1 "
    [] cs = <<"q", "u", "i", "t">> -> "quit"
    [] cs = <<"Q", "U", "I", "T">> -> "QUIT"
    [] cs = <<"Q", "u", "i", "t">> -> "Quit"
    [] cs = <<"Q", "U", "I", "T", " ">> -> "QUIT "
    [] cs = <<"Q", "u", "i", "t", " ">> -> "Quit "
    [] OTHER -> "?"

\* the tools parameter of a completion request: absent, or a list of n
NoTools == [present |-> FALSE, n |-> 0]

\* the list is passed even when it is empty
ToolsParam_always(n) == [present |-> TRUE, n |-> n]

\* lines 73-74: available_tools.length > 0 ? available_tools : undefined
ToolsParam(n) == IF n > 0 THEN [present |-> TRUE, n |-> n] ELSE NoTools

\* ------------------------------------------------- transcript operations
\* line 58: this.messages.push({ role: "user", content: query })
PushUser(msgs, q) == Append(msgs, UserMessage(q))

\* the assistant message of a plain answer is not recorded
PushAssistant_dropped(msgs, m) == msgs

\* line 108: this.messages.push(content.message)
PushAssistant(msgs, m) == Append(msgs, m)

\* the tool message is tagged with the tool's name, not the call's id
CollectToolMessage_byName(tms, text, tc) == Append(tms, ToolMessage(text, tc.name))

\* lines 91-95: tool_messages.push({ role: "tool", content, tool_call_id })
CollectToolMessage(tms, text, tc) == Append(tms, ToolMessage(text, tc.id))

\* the tool messages are pushed ahead of the request they answer
PushToolRound_toolsFirst(msgs, m, tms) == (msgs \o tms) \o <<m>>

\* the buffered results are not pushed
PushToolRound_noTools(msgs, m, tms) == Append(msgs, m)

\* lines 98-99: push(content.message); push(...tool_messages)
PushToolRound(msgs, m, tms) == Append(msgs, m) \o tms

\* the catch undoes the last push of the failed turn
CaughtInLoop_rollback(msgs) == SubSeq(msgs, 1, Len(msgs) - 1)

\* lines 132-134: the catch of chatLoop only logs
CaughtInLoop(msgs) == msgs

\* all remaining calls are started together (Promise.all over the calls)
IssueCallTool_fanOut(tcs, i) == {<<"call_tool", j>> : j \in i..Len(tcs)}

\* line 90: one awaited call_tool per iteration of the for loop
IssueCallTool(tcs, i) == {<<"call_tool", i>>}

\* line 109 and line 105: the value processQuery returns
ReturnText(ch) == ch.message.content
ReturnFinal(ch) == ch.message.content

\* ------------------------------------------------------------------ Init
Init ==
  /\ pc = "import"
  /\ session = "null"
  /\ messages = <<>>
  /\ query = "none"
  /\ available_tools = 0
  /\ content = NoContent
  /\ tool_messages = <<>>
  /\ k = 0
  /\ inflight = {}
  /\ turns = 0
  /\ turnStart = 0
  /\ status = "idle"
  /\ err = "none"
  /\ ret = "none"
  /\ finalIssued = FALSE
  /\ callLog = <<>>
  /\ closeCount = 0
  /\ historyWritten = FALSE
  /\ written = <<>>
  /\ env \in Envs
  /\ initialized = FALSE
  /\ connectFailed = FALSE
  /\ line = NoLine
  /\ readLen = 0
  /\ cleanupCount = 0
  /\ requests = <<>>
  /\ opLog = <<>>
  /\ finalFinish = "none"
  /\ executed = <<>>

turnVars == <<query, available_tools, content, tool_messages, k, turns,
              turnStart, status, err, ret, finalIssued, callLog>>
exitVars == <<closeCount, historyWritten, written>>
bootVars == <<env, initialized, connectFailed>>
loopVars == <<line, readLen>>
logVars  == <<requests, opLog, finalFinish, executed>>

\* ---------------------------------------------------- main, connectToServer
\* lines 153-156 and 37-46: main constructs the client and awaits stdio_client
\* settings.ts line 92, client.ts line 6: settings are loaded when the
\* module is imported, before main is called
SettingsLoaded ==
  /\ pc = "import"
  /\ GetSettings(env) = "ok"
  /\ pc' = "main"
  /\ UNCHANGED <<session, messages, inflight, turnVars, exitVars,
                 bootVars, loopVars, cleanupCount, logVars>>

\* settings.ts lines 40-87: getSettings throws; the import fails and
\* client.ts never runs
SettingsThrow ==
  /\ pc = "import"
  /\ GetSettings(env) # "ok"
  /\ pc' = "import_failed"
  /\ UNCHANGED <<session, messages, inflight, turnVars, exitVars,
                 bootVars, loopVars, cleanupCount, logVars>>

ConnectToServer ==
  /\ pc = "main"
  /\ pc' = "stdio"
  /\ inflight' = {<<"stdio_client", 0>>}
  /\ UNCHANGED <<session, messages, turnVars, exitVars,
                 bootVars, loopVars, cleanupCount, logVars>>

\* lines 159-161: a rejection inside main's try is logged; nothing else runs
MainCatch(settled) ==
  /\ pc' = "exited"
  /\ inflight' = inflight \ {settled}

\* the handshake is skipped: list_tools is awaited on the new session
StdioClientResolves_noInit ==
  /\ pc = "stdio"
  /\ session' = "open"
  /\ pc' = "connect_list"
  /\ inflight' = {<<"list_tools", 0>>}
  /\ UNCHANGED <<messages, turnVars, exitVars,
                 bootVars, loopVars, cleanupCount, logVars>>

\* lines 46-48: the session is created and initialize() awaited
StdioClientResolves ==
  /\ pc = "stdio"
  /\ session' = "open"
  /\ pc' = "init"
  /\ inflight' = {<<"initialize", 0>>}
  /\ UNCHANGED <<messages, turnVars, exitVars,
                 bootVars, loopVars, cleanupCount, logVars>>

StdioClientRejects ==
  /\ pc = "stdio"
  /\ MainCatch(<<"stdio_client", 0>>)
  /\ connectFailed' = TRUE
  /\ UNCHANGED <<session, messages, turnVars, exitVars,
                 env, initialized, loopVars, cleanupCount, logVars>>

\* lines 48-49
InitializeResolves ==
  /\ pc = "init"
  /\ pc' = "connect_list"
  /\ inflight' = {<<"list_tools", 0>>}
  /\ initialized' = TRUE
  /\ UNCHANGED <<session, messages, turnVars, exitVars,
                 env, connectFailed, loopVars, cleanupCount, logVars>>

InitializeRejects ==
  /\ pc = "init"
  /\ MainCatch(<<"initialize", 0>>)
  /\ connectFailed' = TRUE
  /\ UNCHANGED <<session, messages, turnVars, exitVars,
                 env, initialized, loopVars, cleanupCount, logVars>>

\* lines 49-55 and 112-119: tools are printed and chatLoop starts
ConnectListResolves ==
  /\ pc = "connect_list"
  /\ pc' = "read"
  /\ inflight' = {}
  /\ UNCHANGED <<session, messages, turnVars, exitVars,
                 bootVars, loopVars, cleanupCount, logVars>>

ConnectListRejects ==
  /\ pc = "connect_list"
  /\ MainCatch(<<"list_tools", 0>>)
  /\ connectFailed' = TRUE
  /\ UNCHANGED <<session, messages, turnVars, exitVars,
                 env, initialized, loopVars, cleanupCount, logVars>>

\* ---------------------------------------------------------------- chatLoop
\* lines 121-125: the line read is quit; break, so main goes on to cleanup
ReadQuit ==
  /\ pc = "read"
  /\ \E l \in Lines : IsQuitCommand(l) /\ line' = l
  /\ readLen' = Len(messages)
  /\ pc' = "cleanup"
  /\ UNCHANGED <<session, messages, inflight, turnVars, exitVars,
                 bootVars, cleanupCount, logVars>>

\* the tool list of connect time is reused: no list_tools in the turn
ReadQuery_cached ==
  /\ pc = "read"
  /\ turns < MaxTurns
  /\ \E l \in Lines :
       /\ ~IsQuitCommand(l)
       /\ line' = l
       /\ query' = Text(Trim(l))
       /\ messages' = PushUser(messages, Text(Trim(l)))
  /\ readLen' = Len(messages)
  /\ \E n \in 0..1 :
       /\ available_tools' = n
       /\ requests' = <<ToolsParam(n)>>
  /\ opLog' = <<"create">>
  /\ finalFinish' = "none"
  /\ executed' = <<>>
  /\ turns' = turns + 1
  /\ turnStart' = Len(messages)
  /\ status' = "running"
  /\ err' = "none"
  /\ ret' = "none"
  /\ finalIssued' = FALSE
  /\ callLog' = <<>>
  /\ content' = NoContent
  /\ tool_messages' = <<>>
  /\ k' = 0
  /\ inflight' = {<<"create", 1>>}
  /\ pc' = "pq_create"
  /\ UNCHANGED <<session, exitVars, bootVars, cleanupCount>>

\* lines 121-128 and 57-60: another line; processQuery pushes the user
\* message and awaits list_tools
ReadQuery ==
  /\ pc = "read"
  /\ turns < MaxTurns
  /\ \E l \in Lines :
       /\ ~IsQuitCommand(l)
       /\ line' = l
       /\ query' = Text(Trim(l))
       /\ messages' = PushUser(messages, Text(Trim(l)))
  /\ readLen' = Len(messages)
  /\ requests' = <<>>
  /\ opLog' = <<"list_tools">>
  /\ finalFinish' = "none"
  /\ executed' = <<>>
  /\ turns' = turns + 1
  /\ turnStart' = Len(messages)
  /\ status' = "running"
  /\ err' = "none"
  /\ ret' = "none"
  /\ finalIssued' = FALSE
  /\ callLog' = <<>>
  /\ content' = NoContent
  /\ tool_messages' = <<>>
  /\ k' = 0
  /\ available_tools' = 0
  /\ inflight' = {<<"list_tools", 0>>}
  /\ pc' = "pq_list"
  /\ UNCHANGED <<session, exitVars,
                 bootVars, cleanupCount>>

\* the try/catch stands around the while loop: the error ends chatLoop
Throw_fatal(e, settled) ==
  /\ messages' = messages
  /\ status' = "threw"
  /\ err' = e
  /\ inflight' = inflight \ {settled}
  /\ pc' = "exited"

\* a rejection or exception inside processQuery reaches the catch of
\* chatLoop (lines 132-134), which logs it; the while loop reads again
Throw(e, settled) ==
  /\ messages' = CaughtInLoop(messages)
  /\ status' = "threw"
  /\ err' = e
  /\ inflight' = inflight \ {settled}
  /\ pc' = "read"

\* ------------------------------------------------------------ processQuery
\* lines 60-75: schemas are built and the first completion is awaited
ListToolsResolves ==
  /\ pc = "pq_list"
  /\ \E n \in 0..1 :
       /\ available_tools' = n
       /\ requests' = Append(requests, ToolsParam(n))
  /\ opLog' = Append(opLog, "create")
  /\ inflight' = {<<"create", 1>>}
  /\ pc' = "pq_create"
  /\ UNCHANGED <<session, messages, query, content, tool_messages, k, turns,
                 turnStart, status, err, ret, finalIssued, callLog, exitVars,
                 bootVars, loopVars, cleanupCount, finalFinish, executed>>

ListToolsRejects ==
  /\ pc = "pq_list"
  /\ Throw("list_tools", <<"list_tools", 0>>)
  /\ UNCHANGED <<session, query, available_tools, content, tool_messages, k,
                 turns, turnStart, ret, finalIssued, callLog, exitVars,
                 bootVars, loopVars, cleanupCount, logVars>>

\* lines 70-77: create() rejects, or resolves with no choice so that
\* content.finish_reason throws
CreateFails ==
  /\ pc = "pq_create"
  /\ \E e \in {"create", "no_choice"} : Throw(e, <<"create", 1>>)
  /\ UNCHANGED <<session, query, available_tools, content, tool_messages, k,
                 turns, turnStart, ret, finalIssued, callLog, exitVars,
                 bootVars, loopVars, cleanupCount, logVars>>

\* lines 77-79, 108-109: finish_reason is not tool_calls
CreateResolvesText ==
  /\ pc = "pq_create"
  /\ \E ch \in Choices :
       /\ ch.finish_reason # "tool_calls"
       /\ content' = ch
       /\ messages' = PushAssistant(messages, ch.message)
       /\ ret' = ReturnText(ch)
  /\ status' = "returned"
  /\ inflight' = {}
  /\ pc' = "read"
  /\ UNCHANGED <<session, query, available_tools, tool_messages, k, turns,
                 turnStart, err, finalIssued, callLog, exitVars,
                 bootVars, loopVars, cleanupCount, logVars>>

\* the request is pushed before the loop runs and the results after it
ToolLoopAt_pushFirst(ch, i, tms, settled) ==
  LET tcs  == ch.message.tool_calls
      base == IF i = 1 THEN Append(messages, ch.message) ELSE messages
  IN
  /\ k' = i
  /\ tool_messages' = tms
  /\ IF i > Len(tcs)
       THEN /\ messages' = base \o tms
            /\ inflight' = (inflight \ {settled}) \cup {<<"create", 2>>}
            /\ finalIssued' = TRUE
            /\ pc' = "pq_final"
            /\ requests' = Append(requests, NoTools)
            /\ opLog' = Append(opLog, "create")
            /\ UNCHANGED <<status, err, callLog>>
       ELSE IF ~JSONParses(tcs[i].arguments)
         THEN /\ messages' = base
              /\ status' = "threw"
              /\ err' = "parse"
              /\ inflight' = inflight \ {settled}
              /\ pc' = "read"
              /\ UNCHANGED <<finalIssued, callLog, requests, opLog>>
         ELSE /\ messages' = base
              /\ inflight' = (inflight \ {settled}) \cup {<<"call_tool", i>>}
              /\ callLog' = Append(callLog, tcs[i].id)
              /\ pc' = "pq_tool"
              /\ opLog' = Append(opLog, "call_tool")
              /\ UNCHANGED requests
              /\ UNCHANGED <<status, err, finalIssued>>

\* lines 83-104: the for loop standing at tool call i with buffer tms,
\* run up to its next await
ToolLoopAt(ch, i, tms, settled) ==
  LET tcs == ch.message.tool_calls IN
  /\ k' = i
  /\ tool_messages' = tms
  /\ IF i > Len(tcs)
       THEN /\ messages' = PushToolRound(messages, ch.message, tms)
            /\ inflight' = (inflight \ {settled}) \cup {<<"create", 2>>}
            /\ finalIssued' = TRUE
            /\ pc' = "pq_final"
            /\ requests' = Append(requests, NoTools)
            /\ opLog' = Append(opLog, "create")
            /\ UNCHANGED <<status, err, callLog>>
       ELSE IF ~JSONParses(tcs[i].arguments)
         THEN /\ Throw("parse", settled)
              /\ UNCHANGED <<finalIssued, callLog, requests, opLog>>
         ELSE /\ inflight' = (inflight \ {settled}) \cup IssueCallTool(tcs, i)
              /\ callLog' = Append(callLog, tcs[i].id)
              /\ pc' = "pq_tool"
              /\ opLog' = Append(opLog, "call_tool")
              /\ UNCHANGED requests
              /\ UNCHANGED <<messages, status, err, finalIssued>>

\* lines 79-90: finish_reason is tool_calls; the loop starts
CreateResolvesToolCalls ==
  /\ pc = "pq_create"
  /\ \E ch \in Choices :
       /\ ch.finish_reason = "tool_calls"
       /\ content' = ch
       /\ ToolLoopAt(ch, 1, <<>>, <<"create", 1>>)
  /\ UNCHANGED <<session, query, available_tools, turns, turnStart, ret,
                 exitVars,
                 bootVars, loopVars, cleanupCount, finalFinish, executed>>

\* lines 90-96: call_tool resolved; its text is buffered, the loop goes on
CallToolResolves ==
  /\ pc = "pq_tool"
  /\ \E text \in ToolText :
       ToolLoopAt(content, k + 1,
                  CollectToolMessage(tool_messages, text,
                                     content.message.tool_calls[k]),
                  <<"call_tool", k>>)
  /\ executed' = Append(executed, k)
  /\ UNCHANGED <<session, query, available_tools, content, turns, turnStart,
                 ret, exitVars,
                 bootVars, loopVars, cleanupCount, finalFinish>>

\* the rejection is swallowed: an empty result is buffered and the loop
\* goes on to the next call or to the second completion
CallToolRejects_swallow ==
  LET tcs == content.message.tool_calls
      tms == Append(tool_messages, ToolMessage("", tcs[k].id))
  IN
  /\ pc = "pq_tool"
  /\ err' = "call_tool"
  /\ tool_messages' = tms
  /\ k' = k + 1
  /\ IF k + 1 > Len(tcs)
       THEN /\ messages' = PushToolRound(messages, content.message, tms)
            /\ inflight' = {<<"create", 2>>}
            /\ finalIssued' = TRUE
            /\ pc' = "pq_final"
            /\ requests' = Append(requests, NoTools)
            /\ opLog' = Append(opLog, "create")
            /\ UNCHANGED callLog
       ELSE /\ inflight' = {<<"call_tool", k + 1>>}
            /\ callLog' = Append(callLog, tcs[k + 1].id)
            /\ pc' = "pq_tool"
            /\ opLog' = Append(opLog, "call_tool")
            /\ UNCHANGED <<messages, finalIssued, requests>>
  /\ UNCHANGED <<session, query, available_tools, content, turns, turnStart,
                 status, ret, exitVars,
                 bootVars, loopVars, cleanupCount, finalFinish, executed>>

\* lines 90-93: call_tool rejects, or its result has no content item
CallToolRejects ==
  /\ pc = "pq_tool"
  /\ Throw("call_tool", <<"call_tool", k>>)
  /\ UNCHANGED <<session, query, available_tools, content, tool_messages, k,
                 turns, turnStart, ret, finalIssued, callLog, exitVars,
                 bootVars, loopVars, cleanupCount, logVars>>

\* tool calls requested by the second completion start another round
FinalCreateResolves_loops ==
  /\ pc = "pq_final"
  /\ \E ch \in Choices :
       /\ finalFinish' = ch.finish_reason
       /\ IF ch.finish_reason = "tool_calls"
            THEN /\ content' = ch
                 /\ ToolLoopAt(ch, 1, <<>>, <<"create", 2>>)
                 /\ UNCHANGED ret
            ELSE /\ ret' = ReturnFinal(ch)
                 /\ status' = "returned"
                 /\ inflight' = {}
                 /\ pc' = "read"
                 /\ UNCHANGED <<messages, content, tool_messages, k, err,
                                finalIssued, callLog, requests, opLog>>
  /\ UNCHANGED <<session, query, available_tools, turns, turnStart,
                 exitVars, bootVars, loopVars, cleanupCount, executed>>

\* lines 101-105: the answer of the second completion is returned
FinalCreateResolves ==
  /\ pc = "pq_final"
  /\ \E ch \in Choices :
       /\ ret' = ReturnFinal(ch)
       /\ finalFinish' = ch.finish_reason
  /\ status' = "returned"
  /\ inflight' = {}
  /\ pc' = "read"
  /\ UNCHANGED <<session, messages, query, available_tools, content,
                 tool_messages, k, turns, turnStart, err, finalIssued,
                 callLog, exitVars,
                 bootVars, loopVars, cleanupCount, requests, opLog, executed>>

FinalCreateFails ==
  /\ pc = "pq_final"
  /\ \E e \in {"final", "no_choice"} : Throw(e, <<"create", 2>>)
  /\ UNCHANGED <<session, query, available_tools, content, tool_messages, k,
                 turns, turnStart, ret, finalIssued, callLog, exitVars,
                 bootVars, loopVars, cleanupCount, logVars>>

\* ----------------------------------------------------------------- cleanup
\* lines 139-149: the transcript is written, then close() is awaited
CleanupWrites ==
  /\ pc = "cleanup"
  /\ cleanupCount' = cleanupCount + 1
  /\ historyWritten' = TRUE
  /\ written' = messages
  /\ IF session # "null"
       THEN /\ closeCount' = closeCount + 1
            /\ inflight' = {<<"close", 0>>}
            /\ pc' = "closing"
       ELSE /\ pc' = "exited"
            /\ UNCHANGED <<closeCount, inflight>>
  /\ UNCHANGED <<session, messages, turnVars,
                 bootVars, loopVars, logVars>>

\* lines 140-145: mkdirSync or writeFileSync throws; main's catch logs it
CleanupWriteThrows ==
  /\ pc = "cleanup"
  /\ cleanupCount' = cleanupCount + 1
  /\ pc' = "exited"
  /\ UNCHANGED <<session, messages, inflight, turnVars, exitVars,
                 bootVars, loopVars, logVars>>

\* lines 148-150, 158: close() resolved; cleanup and main return
CloseResolves ==
  /\ pc = "closing"
  /\ session' = "closed"
  /\ pc' = "exited"
  /\ inflight' = {}
  /\ UNCHANGED <<messages, turnVars, exitVars,
                 bootVars, loopVars, cleanupCount, logVars>>

\* lines 148, 159-161
CloseRejects ==
  /\ pc = "closing"
  /\ MainCatch(<<"close", 0>>)
  /\ UNCHANGED <<session, messages, turnVars, exitVars,
                 bootVars, loopVars, cleanupCount, logVars>>

Next ==
  \/ SettingsLoaded
  \/ SettingsThrow
  \/ ConnectToServer
  \/ StdioClientResolves
  \/ StdioClientRejects
  \/ InitializeResolves
  \/ InitializeRejects
  \/ ConnectListResolves
  \/ ConnectListRejects
  \/ ReadQuit
  \/ ReadQuery
  \/ ListToolsResolves
  \/ ListToolsRejects
  \/ CreateFails
  \/ CreateResolvesText
  \/ CreateResolvesToolCalls
  \/ CallToolResolves
  \/ CallToolRejects
  \/ FinalCreateResolves
  \/ FinalCreateFails
  \/ CleanupWrites
  \/ CleanupWriteThrows
  \/ CloseResolves
  \/ CloseRejects

Spec == Init /\ [][Next]_vars

\* ------------------------------------------------------------ properties
IsPrefix(s, t) == Len(s) <= Len(t) /\ SubSeq(t, 1, Len(s)) = s

\* the tool calls the first completion of the current turn requested
Requested == content.message.tool_calls

\* the messages the current turn has appended
Appended == SubSeq(messages, turnStart + 1, Len(messages))

\* C1: a turn whose first completion asks for no tool and in which no call
\* fails appends exactly a user message with the input and an assistant
\* message, and returns that assistant message's content.
C1_PlainTurn ==
  (status = "returned" /\ content.finish_reason = "stop") =>
     /\ Len(messages) = turnStart + 2
     /\ messages[turnStart + 1] = UserMessage(query)
     /\ messages[turnStart + 2].role = "assistant"
     /\ ret = messages[turnStart + 2].content

C1_Witness ==
  /\ status = "returned"
  /\ content.finish_reason = "stop"
  /\ turns = 2
  /\ ret \in Answers

\* C2: a turn whose first completion asks for n >= 1 tool calls and in
\* which no call fails appends exactly n + 3 messages, the last one an
\* assistant message carrying the returned answer.
C2_ToolTurnGrowth ==
  (status = "returned" /\ content.finish_reason = "tool_calls") =>
     /\ Len(messages) = turnStart + Len(Requested) + 3
     /\ messages[Len(messages)] = AssistantText(ret)

\* C3: every tool message answers a call of the nearest assistant message
\* before it, and only tool messages lie between the two.
C3_ToolIdsMatch ==
  \A i \in 1..Len(messages) :
     messages[i].role = "tool" =>
       \E j \in 1..(i - 1) :
          /\ messages[j].role = "assistant"
          /\ \A m \in (j + 1)..(i - 1) : messages[m].role = "tool"
          /\ \E c \in 1..Len(messages[j].tool_calls) :
                messages[j].tool_calls[c].id = messages[i].tool_call_id

C3_Witness ==
  /\ Len(messages) >= turnStart + 4
  /\ messages[turnStart + 3].role = "tool"
  /\ messages[turnStart + 4].role = "tool"
  /\ messages[turnStart + 3].tool_call_id # messages[turnStart + 4].tool_call_id
  /\ status = "threw"

C5_FailurePropagates ==
  err = "call_tool" =>
     /\ status = "threw"
     /\ pc \notin {"pq_list", "pq_create", "pq_tool", "pq_final"}
     /\ ret = "none"
     /\ ~finalIssued
     /\ \A i \in 1..Len(Appended) :
           ~(/\ Appended[i].role = "tool"
             /\ Appended[i].tool_call_id = Requested[k].id)

C5_Witness ==
  /\ err = "call_tool"
  /\ k = 2
  /\ Len(tool_messages) = 1
  /\ pc = "read"

C7_Sequential ==
  /\ Cardinality(inflight) <= 1
  /\ pc = "pq_tool" =>
       /\ inflight = {<<"call_tool", k>>}
       /\ callLog = SubSeq(Ids(Requested), 1, k)
  /\ IsPrefix(callLog, Ids(Requested))
  /\ pc = "pq_final" =>
       /\ callLog = Ids(Requested)
       /\ Len(Appended) = 2 + Len(Requested)
       /\ \A i \in 1..Len(Requested) :
             /\ Appended[2 + i].role = "tool"
             /\ Appended[2 + i].tool_call_id = Requested[i].id

C7_Witness ==
  /\ pc = "pq_final"
  /\ Len(Requested) = 2
  /\ Requested[1].id # Requested[2].id
  /\ inflight = {<<"create", 2>>}

\* C8: the transcript only grows: every step leaves the messages it found
\* in place, unchanged, at the front of the transcript.
C8_AppendOnly == [][IsPrefix(messages, messages')]_vars

C8_Witness ==
  /\ pc = "exited"
  /\ historyWritten
  /\ status = "threw"
  /\ turns = 2
  /\ Len(messages) >= 4

\* C9: once created, the tool session is closed exactly once by the time
\* the process ends, whatever the path.
C9_ClosedExactlyOnce ==
  (pc = "exited" /\ session # "null") => closeCount = 1

\* C10: whenever the process ends, the full transcript has been written.
C10_TranscriptFlushed ==
  pc = "exited" => (historyWritten /\ written = messages)

\* the lines that are quit once trimmed, in any letter case
QuitLines ==
  { <<"q", "u", "i", "t">>,
    <<" ", "Q", "U", "I", "T", " ">>,
    <<"Q", "u", "i", "t", " ">> }

InProcessQuery == pc \in {"pq_list", "pq_create", "pq_tool", "pq_final"}

\* C11: once a line that trims to quit, in any letter case, has been read,
\* processQuery is not running and never runs again, the transcript is as
\* the line found it, and cleanup runs exactly once.
C11_QuitExits ==
  line \in QuitLines =>
     /\ pc \in {"cleanup", "closing", "exited"}
     /\ status # "running"
     /\ Len(messages) = readLen
     /\ cleanupCount = IF pc = "cleanup" THEN 0 ELSE 1

C11_Witness ==
  /\ line = <<" ", "Q", "U", "I", "T", " ">>
  /\ pc = "exited"
  /\ cleanupCount = 1
  /\ turns = 1

\* C12: the step in which a turn raises an error (listing, completion, no
\* choice, argument decoding, tool invocation) leaves the loop about to
\* read the next line, on the same transcript and the same open session,
\* with cleanup not run.
C12_TurnErrorsCaught ==
  [][(err = "none" /\ err' # "none") =>
        /\ pc' = "read"
        /\ status' = "threw"
        /\ inflight' = {}
        /\ messages' = messages
        /\ session = "open" /\ session' = "open"
        /\ cleanupCount' = 0 /\ closeCount' = 0]_vars

C12_Witness ==
  /\ turns = 2
  /\ status = "running"
  /\ session = "open"
  /\ Len(messages) = 2
  /\ messages[1].role = "user"
  /\ messages[2].role = "user"

\* C13: a turn issues at most two completion calls and calls each requested
\* tool at most once; the second completion carries no tool schemas, and
\* once it is issued no tool is called again in the turn, whatever it
\* answers.
C13_OneToolRound ==
  /\ Len(requests) <= 2
  /\ Len(callLog) <= Len(Requested)
  /\ pc = "pq_final" => finalIssued
  /\ finalIssued =>
       /\ Len(requests) = 2
       /\ requests[2] = NoTools
       /\ callLog = Ids(Requested)
       /\ pc # "pq_tool"
       /\ \A op \in inflight : op[1] # "call_tool"
  /\ finalFinish # "none" => (status = "returned" /\ ~InProcessQuery)

C13_Witness ==
  /\ finalFinish = "tool_calls"
  /\ status = "returned"
  /\ pc = "read"
  /\ ret = "null"

\* the configurations C14 names
BadConfig(e) ==
  \/ e.apiKey = ""
  \/ e.file \in {"ENOENT", "garbage"}
  \/ ~e.hasServers
  \/ e.servers = <<>>
  \/ ~e.servers[1].hasCommand
  \/ ~e.servers[1].hasArgs
  \/ e.servers[1].args = <<>>

\* C14: with a missing, unparsable or empty configuration, a missing API
\* key, or a failed connection or handshake, no line is ever read and
\* processQuery never runs.
C14_NoLoopWithoutStartup ==
  /\ BadConfig(env) => pc \in {"import", "import_failed"}
  /\ (BadConfig(env) \/ connectFailed) =>
       /\ line = NoLine
       /\ turns = 0
       /\ messages = <<>>
       /\ pc \notin {"read", "cleanup", "closing"}
       /\ ~InProcessQuery

C14_Witness ==
  /\ pc = "import_failed"
  /\ env.apiKey = "key"
  /\ env.file = "json"
  /\ Len(env.servers) = 2
  /\ env.servers[1].args = <<>>

\* C15: list_tools and call_tool are in flight only on a session whose
\* handshake has completed and that has not been closed, and after close
\* nothing else is issued.
C15_Lifecycle ==
  /\ \A op \in inflight :
        op[1] \in {"list_tools", "call_tool"} =>
           (initialized /\ session = "open" /\ closeCount = 0)
  /\ \A op \in inflight :
        op[1] = "initialize" => (session = "open" /\ closeCount = 0)
  /\ closeCount > 0 => inflight \subseteq {<<"close", 0>>}
  /\ session = "closed" => inflight = {}

C15_Witness ==
  /\ inflight = {<<"call_tool", 2>>}
  /\ initialized
  /\ turns = 2

\* C17: the first completion request of a turn carries the schema list
\* exactly when list_tools reported a tool, never an empty list, and the
\* second request carries none.
C17_ToolsOnlyWhenAvailable ==
  /\ Len(requests) >= 1 =>
       /\ requests[1].present <=> available_tools > 0
       /\ requests[1].n = available_tools
  /\ Len(requests) >= 2 => ~requests[2].present
  /\ \A i \in 1..Len(requests) : ~(requests[i].present /\ requests[i].n = 0)

C17_Witness ==
  /\ Len(requests) = 2
  /\ requests[1] = [present |-> TRUE, n |-> 1]
  /\ requests[2] = NoTools

\* C18 as stated: every completion call of a turn is preceded by a
\* list_tools issued after the previous completion call of the turn.
C18_ListBeforeEveryCreate ==
  \A i \in 1..Len(opLog) :
     opLog[i] = "create" =>
       \E j \in 1..(i - 1) :
          /\ opLog[j] = "list_tools"
          /\ \A m \in (j + 1)..(i - 1) : opLog[m] # "create"

\* C18 amended: list_tools is issued once per turn, right before the first
\* completion call; the second completion call is issued without another
\* list_tools.
C18_ListOncePerTurn ==
  opLog # <<>> =>
     /\ opLog[1] = "list_tools"
     /\ Len(opLog) >= 2 => opLog[2] = "create"
     /\ \A i \in 2..Len(opLog) : opLog[i] # "list_tools"

C18_Witness ==
  /\ pc = "pq_final"
  /\ opLog = <<"list_tools", "create", "call_tool", "create">>

C20_RequestsAnswered ==
  ~InProcessQuery =>
     \A i \in 1..Len(messages) :
        LET n == Len(messages[i].tool_calls) IN
        (messages[i].role = "assistant" /\ n > 0) =>
           /\ i + n <= Len(messages)
           /\ \A c \in 1..n :
                 /\ messages[i + c].role = "tool"
                 /\ messages[i + c].tool_call_id = messages[i].tool_calls[c].id
           /\ i + n + 1 <= Len(messages) => messages[i + n + 1].role # "tool"

C20_Witness ==
  /\ pc = "read"
  /\ status = "threw"
  /\ err = "call_tool"
  /\ turns = 2
  /\ Len(messages) = 5
  /\ Len(messages[2].tool_calls) = 2

TypeOK ==
  /\ pc \in {"import", "import_failed", "main", "stdio", "init", "connect_list", "read", "pq_list",
             "pq_create", "pq_tool", "pq_final", "cleanup", "closing",
             "exited"}
  /\ session \in {"null", "open", "closed"}
  /\ turns \in 0..MaxTurns
  /\ status \in {"idle", "running", "returned", "threw"}
====
